---- MODULE Spec2Model ----
(***************************************************************************)
(* Model of the expense-tracker backend: process startup (server.js), the  *)
(* validation middleware, the Transaction model with its pre-save hook and *)
(* aggregation statics, and the transaction / analytics route handlers.    *)
(*                                                                         *)
(* Amounts are fixed-point numbers in thousandths (1005 is 1.005), strings *)
(* are sequences of one-character strings, dates are integer instants and  *)
(* ObjectIds are positive integers in generation order.                    *)
(***************************************************************************)
EXTENDS Integers, Sequences, FiniteSets, TLC

VARIABLES pc, dbConnected, listening, store, written, nextId, clock, req, resp,
          tasks

vars ==
  <<pc, dbConnected, listening, store, written, nextId, clock, req, resp, tasks>>

(* ---------------------------- bounds ----------------------------------- *)

\* number of writes (create / update) that read the clock in one behaviour
MaxWrites == 2

\* largest limit and offset a list request carries
MaxLimit == 2
MaxOffset == 1

\* number of requests that can be awaiting the store at the same time
MaxHandlers == 2

(* ------------------------- program constants --------------------------- *)

MinAmount == 10
MaxDescriptionLen == 255
MaxCategoryLen == 50
DefaultLimit == 50
RecentLimit == 10

(* ------------------------------ strings -------------------------------- *)

Str(n, ch) == [i \in 1..n |-> ch]

toUpperCase(ch) ==
  CASE ch = "f" -> "F"
    [] ch = "o" -> "O"
    [] ch = "t" -> "T"
    [] ch = "a" -> "A"
    [] OTHER -> ch

toLowerCase(ch) ==
  CASE ch = "F" -> "f"
    [] ch = "O" -> "o"
    [] ch = "T" -> "t"
    [] ch = "A" -> "a"
    [] OTHER -> ch

\* a trim that leaves the string as it is
trim_none(s) == s

RECURSIVE ltrim(_)
ltrim(s) == IF s # <<>> /\ Head(s) = " " THEN ltrim(Tail(s)) ELSE s

RECURSIVE rtrim(_)
rtrim(s) ==
  IF s # <<>> /\ s[Len(s)] = " " THEN rtrim(SubSeq(s, 1, Len(s) - 1)) ELSE s

trim(s) == rtrim(ltrim(s))

lowerAll(s) == [i \in 1..Len(s) |-> toLowerCase(s[i])]

\* category.charAt(0).toUpperCase() + category.slice(1).toLowerCase()
capitalize(s) ==
  IF s = <<>> THEN s
  ELSE <<toUpperCase(s[1])>> \o lowerAll(SubSeq(s, 2, Len(s)))

(* ------------------------------ numbers -------------------------------- *)

Num(v) == [kind |-> "num", v |-> v]
NaN == [kind |-> "nan", v |-> 0]
Infinity == [kind |-> "inf", v |-> 0]

\* Math.round(amount * 100) / 100 on thousandths: round half up to hundredths
Round2(a) == ((a + 5) \div 10) * 10

RECURSIVE SumAmount(_)
SumAmount(S) ==
  IF S = {} THEN 0
  ELSE LET r == CHOOSE x \in S : TRUE IN r.amount + SumAmount(S \ {r})

(* ------------------------------- dates --------------------------------- *)

At(v) == [kind |-> "date", v |-> v]
NoDate == [kind |-> "absent", v |-> 0]
BadDate == [kind |-> "bad", v |-> 0]

(* ----------------------------- identifiers ----------------------------- *)

MalformedId == -1
NoId == 0

\* a cast that accepts every id
isValidObjectId_any(id) == TRUE

\* the cast of req.params.id to an ObjectId succeeds
isValidObjectId(id) == id >= 1

(* ------------------------------ payloads ------------------------------- *)

Body(t, a, d, c, dt) ==
  [type |-> t, amount |-> a, description |-> d, category |-> c, date |-> dt]

BasePayload == Body("expense", Num(1005), <<"a">>, <<"f", "O">>, At(0))

\* the longest and smallest values the rules accept
LongPayload ==
  Body("income", Num(MinAmount), Str(MaxDescriptionLen, "a"),
       Str(MaxCategoryLen, "t"), NoDate)

\* payloads every rule accepts: the base payload varied one field at a time
ValidPayloads ==
  { BasePayload, LongPayload }
    \cup { [BasePayload EXCEPT !.type = "income"] }
    \cup { [BasePayload EXCEPT !.amount = Num(1004)] }
    \cup { [BasePayload EXCEPT !.description = <<" ", "a", " ">>] }
    \cup { [BasePayload EXCEPT !.category = <<" ", "t", " ">>] }
    \cup { [BasePayload EXCEPT !.date = NoDate] }

\* payloads the validation middleware or the schema rejects
InvalidPayloads ==
  { [BasePayload EXCEPT !.type = t] : t \in {"bogus", ""} }
    \cup { [BasePayload EXCEPT !.amount = a] : a \in {Num(0), Infinity} }
    \cup { [BasePayload EXCEPT !.description = d] :
             d \in {<<" ">>, Str(MaxDescriptionLen + 1, "a")} }
    \cup { [BasePayload EXCEPT !.category = c] :
             c \in {<<>>, Str(MaxCategoryLen + 1, "t")} }
    \cup { [BasePayload EXCEPT !.date = BadDate] }
    \cup { Body("", NaN, <<>>, <<>>, BadDate) }

Payloads == ValidPayloads \cup InvalidPayloads

NoBody == Body("", NaN, <<>>, <<>>, NoDate)

(* ----------------------- validation middleware ------------------------- *)

\* isFloat({ min: 0.01 })
isFloat(a) ==
  CASE a.kind = "num" -> a.v >= MinAmount
    [] a.kind = "inf" -> TRUE
    [] OTHER -> FALSE

isLength(s, min, max) == Len(s) >= min /\ Len(s) <= max

\* the rules without the rule for type
validationErrors_noType(body) ==
  { f \in {"amount", "description", "category", "date"} :
      CASE f = "amount" -> ~isFloat(body.amount)
        [] f = "description" ->
             ~isLength(trim(body.description), 1, MaxDescriptionLen)
        [] f = "category" -> ~isLength(trim(body.category), 1, MaxCategoryLen)
        [] f = "date" -> body.date.kind = "bad" }

\* the fields for which a rule of transactionValidationRules reports an error
validationErrors(body) ==
  { f \in {"type", "amount", "description", "category", "date"} :
      CASE f = "type" -> body.type \notin {"income", "expense"}
        [] f = "amount" -> ~isFloat(body.amount)
        [] f = "description" ->
             ~isLength(trim(body.description), 1, MaxDescriptionLen)
        [] f = "category" -> ~isLength(trim(body.category), 1, MaxCategoryLen)
        [] f = "date" -> body.date.kind = "bad" }

\* req.body after the sanitizers (trim, toFloat, toDate) have run
sanitized(body) ==
  [body EXCEPT !.description = trim(body.description),
               !.category = trim(body.category)]

(* --------------------------- Transaction model ------------------------- *)

\* the paths for which the schema's validators fail
schemaErrors(doc) ==
  { f \in {"type", "amount", "description", "category", "date"} :
      CASE f = "type" -> doc.type \notin {"income", "expense"}
        [] f = "amount" -> ~(doc.amount.kind = "num" /\ doc.amount.v >= MinAmount)
        [] f = "description" ->
             ~isLength(trim(doc.description), 1, MaxDescriptionLen)
        [] f = "category" -> ~isLength(trim(doc.category), 1, MaxCategoryLen)
        [] f = "date" -> doc.date.kind # "date" }

\* the document the handlers hand to the model: date: date || new Date(),
\* string paths trimmed by the schema's setters
castDoc(body, now) ==
  [type |-> body.type,
   amount |-> body.amount,
   description |-> trim(body.description),
   category |-> trim(body.category),
   date |-> IF body.date.kind = "absent" THEN At(now) ELSE body.date]

\* a save hook that leaves the document as it is
preSave_skip(rec) == rec

\* transactionSchema.pre("save")
preSave(rec) ==
  [rec EXCEPT !.amount = IF rec.amount # 0 THEN Round2(rec.amount) ELSE rec.amount,
              !.category = IF rec.category # <<>> THEN capitalize(rec.category)
                           ELSE rec.category]

\* the stored form of a validated document
Stored(id, doc, createdAt) ==
  [_id |-> id, type |-> doc.type, amount |-> doc.amount.v,
   description |-> doc.description, category |-> doc.category,
   date |-> doc.date.v, createdAt |-> createdAt]

\* Transaction.findById
findById(recs, id) == { r \in recs : r._id = id }

(* ------------------------------ responses ------------------------------ *)

Query(t, c, from, to, l, o) ==
  [type |-> t, category |-> c, startDate |-> from, endDate |-> to,
   limit |-> l, offset |-> o]

NoQuery == Query("", <<>>, NoDate, NoDate, DefaultLimit, 0)

Request(op, id, body) == [op |-> op, id |-> id, body |-> body, query |-> NoQuery]

Ok(status, data) == [status |-> status, code |-> "OK", data |-> data]

Error(status, code) == [status |-> status, code |-> code, data |-> <<>>]

NoRequest == Request("none", NoId, NoBody)

Min(a, b) == IF a <= b THEN a ELSE b
Max(a, b) == IF a >= b THEN a ELSE b
NoResponse == [status |-> 0, code |-> "NONE", data |-> <<>>]

\* history: the request that last wrote the record with a given id
Write(op, body, now) == [op |-> op, body |-> body, now |-> now]

(* ------------------------- suspended handlers -------------------------- *)

Handlers == 1..MaxHandlers

\* a handler awaiting a store operation: its request, the instant it read, the
\* page its find returned with the records that matched, and its response
Task(at, r, now, page, seen, res) ==
  [pc |-> at, req |-> r, now |-> now, page |-> page, seen |-> seen, res |-> res]

Idle == Task("idle", NoRequest, 0, <<>>, {}, NoResponse)

\* a handler that has responded; each handler serves one request in a behaviour
Done == Task("done", NoRequest, 0, <<>>, {}, NoResponse)

(* ------------------------------- startup ------------------------------- *)

Init ==
  /\ pc = "connectDB"
  /\ dbConnected = FALSE
  /\ listening = FALSE
  /\ store = {}
  /\ written = <<>>
  /\ nextId = 1
  /\ clock = 1
  /\ req = NoRequest
  /\ resp = NoResponse
  /\ tasks = [h \in Handlers |-> Idle]

unchangedData == UNCHANGED <<store, written, nextId, clock, req, resp, tasks>>

\* connectDB: mongoose.connect resolves
ConnectOk ==
  /\ pc = "connectDB"
  /\ dbConnected' = TRUE
  /\ pc' = "listen"
  /\ UNCHANGED listening
  /\ unchangedData

\* connectDB: mongoose.connect rejects, process.exit(1)
ConnectFail ==
  /\ pc = "connectDB"
  /\ pc' = "exited"
  /\ UNCHANGED <<dbConnected, listening>>
  /\ unchangedData

\* app.listen without awaiting connectDB()
Listen_noAwait ==
  /\ pc \in {"connectDB", "listen"}
  /\ ~listening
  /\ listening' = TRUE
  /\ pc' = IF pc = "listen" THEN "serving" ELSE pc
  /\ UNCHANGED dbConnected
  /\ unchangedData

\* startServer: app.listen after await connectDB()
Listen ==
  /\ pc = "listen"
  /\ listening' = TRUE
  /\ pc' = "serving"
  /\ UNCHANGED dbConnected
  /\ unchangedData

unchangedProcess == UNCHANGED <<pc, dbConnected, listening, tasks>>

(* ------------------------ transaction endpoints ------------------------ *)

IdInputs == 1..MaxWrites \cup {MalformedId}

\* router.post("/")
Create(bodies) ==
  /\ listening
  /\ clock <= MaxWrites
  /\ \E body \in bodies :
       LET doc == castDoc(sanitized(body), clock)
           saved == preSave(Stored(nextId, doc, clock))
       IN /\ req' = Request("POST", NoId, body)
          /\ IF validationErrors(body) # {} \/ schemaErrors(doc) # {}
             THEN /\ resp' = Error(400, "VALIDATION_ERROR")
                  /\ UNCHANGED <<store, written, nextId, clock>>
             ELSE /\ store' = store \cup {saved}
                  /\ written' = Append(written, Write("POST", body, clock))
                  /\ nextId' = nextId + 1
                  /\ clock' = clock + 1
                  /\ resp' = Ok(201, <<saved>>)
  /\ unchangedProcess

\* router.get("/:id")
GetById ==
  /\ listening
  /\ \E id \in IdInputs :
       /\ req' = Request("GET", id, NoBody)
       /\ resp' = IF ~isValidObjectId(id) THEN Error(400, "INVALID_ID")
                  ELSE IF findById(store, id) = {} THEN Error(404, "NOT_FOUND")
                  ELSE Ok(200, <<CHOOSE r \in findById(store, id) : TRUE>>)
  /\ UNCHANGED <<store, written, nextId, clock>>
  /\ unchangedProcess

\* an update that leaves the date path out of the update document
findByIdAndUpdate_keepDate(rec, doc) ==
  [rec EXCEPT !.type = doc.type, !.amount = doc.amount.v,
              !.description = doc.description, !.category = doc.category]

\* Transaction.findByIdAndUpdate(id, update, { new: true, runValidators: true }):
\* the matched document with the update's paths set; no save middleware runs
findByIdAndUpdate(rec, doc) ==
  [rec EXCEPT !.type = doc.type, !.amount = doc.amount.v,
              !.description = doc.description, !.category = doc.category,
              !.date = doc.date.v]

\* { new: false }: the document as it was before the update
returnDocument_old(old, new) == old

\* { new: true }: findByIdAndUpdate resolves to the document after the update
returnDocument(old, new) == new

\* router.put("/:id")
Update(bodies) ==
  /\ listening
  /\ clock <= MaxWrites
  /\ \E id \in IdInputs, body \in bodies :
       LET doc == castDoc(sanitized(body), clock)
           found == findById(store, id)
       IN /\ req' = Request("PUT", id, body)
          /\ IF validationErrors(body) # {}
             THEN /\ resp' = Error(400, "VALIDATION_ERROR")
                  /\ UNCHANGED <<store, written, clock>>
             ELSE IF ~isValidObjectId(id)
             THEN /\ resp' = Error(400, "INVALID_ID")
                  /\ UNCHANGED <<store, written, clock>>
             ELSE IF schemaErrors(doc) # {}
             THEN /\ resp' = Error(400, "VALIDATION_ERROR")
                  /\ UNCHANGED <<store, written, clock>>
             ELSE IF found = {}
             THEN /\ resp' = Error(404, "NOT_FOUND")
                  /\ UNCHANGED <<store, written, clock>>
             ELSE LET old == CHOOSE r \in found : TRUE
                      new == findByIdAndUpdate(old, doc)
                  IN /\ store' = (store \ {old}) \cup {new}
                     /\ written' = [written EXCEPT ![id] = Write("PUT", body, clock)]
                     /\ clock' = clock + 1
                     /\ resp' = Ok(200, <<returnDocument(old, new)>>)
  /\ UNCHANGED nextId
  /\ unchangedProcess

\* a soft delete: the record is reported deleted and stays in the collection
Delete_soft ==
  /\ listening
  /\ \E id \in IdInputs :
       /\ req' = Request("DELETE", id, NoBody)
       /\ resp' = IF ~isValidObjectId(id) THEN Error(400, "INVALID_ID")
                  ELSE IF findById(store, id) = {} THEN Error(404, "NOT_FOUND")
                  ELSE Ok(200, <<[id |-> id]>>)
  /\ UNCHANGED <<store, written, nextId, clock>>
  /\ unchangedProcess

\* router.delete("/:id")
Delete ==
  /\ listening
  /\ \E id \in IdInputs :
       /\ req' = Request("DELETE", id, NoBody)
       /\ IF ~isValidObjectId(id)
          THEN /\ resp' = Error(400, "INVALID_ID")
               /\ UNCHANGED store
          ELSE IF findById(store, id) = {}
          THEN /\ resp' = Error(404, "NOT_FOUND")
               /\ UNCHANGED store
          ELSE /\ store' = store \ findById(store, id)
               /\ resp' = Ok(200, <<[id |-> id]>>)
  /\ UNCHANGED <<written, nextId, clock>>
  /\ unchangedProcess

Next ==
  \/ ConnectOk
  \/ ConnectFail
  \/ Listen
  \/ Create(Payloads)
  \/ GetById
  \/ Update(Payloads)
  \/ Delete

Spec == Init /\ [][Next]_vars

(* ---------------------- a server with a stored record ------------------ *)

SeedPayload == [BasePayload EXCEPT !.category = <<" ", "t", " ">>]

\* the record router.post("/") stores for a payload at instant now
created(id, body, now) == preSave(Stored(id, castDoc(sanitized(body), now), now))

\* the state after startup and one create request handled at instant 0
InitServing ==
  /\ pc = "serving"
  /\ dbConnected = TRUE
  /\ listening = TRUE
  /\ store = {created(1, SeedPayload, 0)}
  /\ written = <<Write("POST", SeedPayload, 0)>>
  /\ nextId = 2
  /\ clock = 1
  /\ req = Request("POST", NoId, SeedPayload)
  /\ resp = Ok(201, <<created(1, SeedPayload, 0)>>)
  /\ tasks = [h \in Handlers |-> Idle]

\* payloads that differ from each other in every mutable field, one that
\* the sanitizers change and one that validation rejects
UpdatePayloads ==
  { BasePayload, LongPayload }
    \cup { [BasePayload EXCEPT !.description = <<" ", "a", " ">>] }
    \cup { [BasePayload EXCEPT !.type = "bogus"] }

NextUpdate ==
  \/ Create(UpdatePayloads)
  \/ GetById
  \/ Update(UpdatePayloads)
  \/ Delete

SpecUpdate == InitServing /\ [][NextUpdate]_vars

(* ------------------------- concurrent updates -------------------------- *)

unchangedServer == UNCHANGED <<pc, dbConnected, listening>>

\* router.put("/:id") up to its await: the validate middleware answers a
\* rejected payload at once, else the handler reads the clock for the default
\* date, calls findByIdAndUpdate and suspends
PutBegin(h, ids, bodies) ==
  /\ listening
  /\ tasks[h].pc = "idle"
  /\ \E id \in ids, body \in bodies :
       IF validationErrors(body) # {}
       THEN /\ req' = Request("PUT", id, body)
            /\ resp' = Error(400, "VALIDATION_ERROR")
            /\ tasks' = [tasks EXCEPT ![h] = Done]
       ELSE /\ tasks' = [tasks EXCEPT ![h] =
                           Task("update", Request("PUT", id, body), clock,
                                <<>>, {}, NoResponse)]
            /\ UNCHANGED <<req, resp>>
  /\ UNCHANGED <<store, written, nextId, clock>>
  /\ unchangedServer

\* the findByIdAndUpdate of a suspended handler: one atomic operation on the
\* document, resolving to the document it wrote
PutApply(h) ==
  /\ tasks[h].pc = "update"
  /\ LET id == tasks[h].req.id
         body == tasks[h].req.body
         doc == castDoc(sanitized(body), tasks[h].now)
         found == findById(store, id)
         done(res) == [tasks EXCEPT ![h].pc = "respond", ![h].res = res]
     IN IF ~isValidObjectId(id)
        THEN /\ tasks' = done(Error(400, "INVALID_ID"))
             /\ UNCHANGED <<store, written, clock>>
        ELSE IF schemaErrors(doc) # {}
        THEN /\ tasks' = done(Error(400, "VALIDATION_ERROR"))
             /\ UNCHANGED <<store, written, clock>>
        ELSE IF found = {}
        THEN /\ tasks' = done(Error(404, "NOT_FOUND"))
             /\ UNCHANGED <<store, written, clock>>
        ELSE LET old == CHOOSE r \in found : TRUE
                 new == findByIdAndUpdate(old, doc)
             IN /\ store' = (store \ {old}) \cup {new}
                /\ written' = [written EXCEPT ![id] = Write("PUT", body, tasks[h].now)]
                /\ clock' = clock + 1
                /\ tasks' = done(Ok(200, <<returnDocument(old, new)>>))
  /\ UNCHANGED <<nextId, req, resp>>
  /\ unchangedServer

\* router.put("/:id") after its await: the handler resumes and responds
PutRespond(h) ==
  /\ tasks[h].pc = "respond"
  /\ req' = tasks[h].req
  /\ resp' = tasks[h].res
  /\ tasks' = [tasks EXCEPT ![h] = Done]
  /\ UNCHANGED <<store, written, nextId, clock>>
  /\ unchangedServer

\* payloads that differ in every mutable field, and one that validation rejects
ConcPayloads ==
  { BasePayload, LongPayload } \cup { [BasePayload EXCEPT !.type = "bogus"] }

\* the id of the stored record and an id no record has
ConcIds == {1, 2}

NextPut ==
  \/ \E h \in Handlers : PutBegin(h, ConcIds, ConcPayloads)
  \/ \E h \in Handlers : PutApply(h)
  \/ \E h \in Handlers : PutRespond(h)

SpecPut == InitServing /\ [][NextPut]_vars


(* ------------------------------- listing ------------------------------- *)

\* new RegExp(category, "i").test(s) for a pattern of literal characters
contains(s, p) ==
  \E i \in 0..(Len(s) - Len(p)) :
    lowerAll(SubSeq(s, i + 1, i + Len(p))) = lowerAll(p)

\* a date filter that leaves the boundary instants out
matches_exclusive(r, q) ==
  /\ q.type \in {"income", "expense"} => r.type = q.type
  /\ q.category # <<>> => contains(r.category, q.category)
  /\ q.startDate.kind = "date" => r.date > q.startDate.v
  /\ q.endDate.kind = "date" => r.date < q.endDate.v

\* the filter object router.get("/") builds from req.query
matches(r, q) ==
  /\ q.type \in {"income", "expense"} => r.type = q.type
  /\ q.category # <<>> => contains(r.category, q.category)
  /\ q.startDate.kind = "date" => r.date >= q.startDate.v
  /\ q.endDate.kind = "date" => r.date <= q.endDate.v

\* Transaction.find(filter) / Transaction.countDocuments(filter)
find(recs, q) == { r \in recs : matches(r, q) }

\* r comes before s under sort({ date: -1, createdAt: -1 })
before(r, s) ==
  \/ r.date > s.date
  \/ r.date = s.date /\ r.createdAt > s.createdAt

RECURSIVE sortByDate(_)
sortByDate(S) ==
  IF S = {} THEN <<>>
  ELSE LET first == CHOOSE r \in S : \A s \in S \ {r} : before(r, s)
       IN <<first>> \o sortByDate(S \ {first})

\* a page that ignores the offset
skipLimit_noSkip(seq, l, o) ==
  SubSeq(seq, 1, IF l = 0 THEN Len(seq) ELSE Min(Len(seq), l))

\* .limit(l).skip(o): the server skips, then limits; a limit of 0 is no limit
skipLimit(seq, l, o) ==
  SubSeq(seq, o + 1, IF l = 0 THEN Len(seq) ELSE Min(Len(seq), o + l))

\* the filters of a list request: none, a type, an unknown type, a category
Filters ==
  { Query("", <<>>, NoDate, NoDate, DefaultLimit, 0) }
    \cup { Query(t, <<>>, NoDate, NoDate, DefaultLimit, 0) : t \in {"income", "bogus"} }
    \cup { Query("", <<"t">>, NoDate, NoDate, DefaultLimit, 0) }

Queries ==
  { [f EXCEPT !.limit = l, !.offset = o] :
      f \in Filters, l \in 0..MaxLimit \cup {DefaultLimit}, o \in 0..MaxOffset }

\* a filter whose date does not parse: new Date(...) is an Invalid Date, which
\* the query refuses to cast
castErrors(q) ==
  { f \in {"startDate", "endDate"} : q[f].kind = "bad" }

\* router.get("/")
ListBy(queries) ==
  /\ listening
  /\ \E q \in queries :
       LET transactions == skipLimit(sortByDate(find(store, q)), q.limit, q.offset)
           totalCount == Cardinality(find(store, q))
       IN /\ req' = [Request("LIST", NoId, NoBody) EXCEPT !.query = q]
          /\ resp' = IF castErrors(q) # {}
                     THEN Error(500, "SERVER_ERROR")
                     ELSE [status |-> 200, code |-> "OK", data |-> transactions,
                           pagination |-> [total |-> totalCount, limit |-> q.limit,
                                           offset |-> q.offset,
                                           hasMore |-> q.offset + q.limit < totalCount]]
  /\ UNCHANGED <<store, written, nextId, clock>>
  /\ unchangedProcess

List == ListBy(Queries)

\* payloads that differ in the fields the list filters and sorts on
ListPayloads ==
  { BasePayload }
    \cup { [BasePayload EXCEPT !.type = "income"] }
    \cup { [BasePayload EXCEPT !.category = <<" ", "t", " ">>] }
    \cup { [BasePayload EXCEPT !.date = NoDate] }

NextList ==
  \/ ConnectOk
  \/ ConnectFail
  \/ Listen
  \/ Create(ListPayloads)
  \/ Update(ListPayloads)
  \/ Delete
  \/ List

SpecList == Init /\ [][NextList]_vars

\* list requests with a date range: each end absent, a date, or unparseable
DateQueries ==
  { Query("", <<>>, from, to, l, 0) :
      from \in {NoDate, At(1), BadDate}, to \in {NoDate, At(1), At(2)},
      l \in {1, DefaultLimit} }

\* payloads dated before, at and after the ends of the range
DatePayloads ==
  { [BasePayload EXCEPT !.date = d] : d \in {At(0), At(1), At(2), At(3), NoDate} }

NextDates ==
  \/ Create(DatePayloads)
  \/ Update(DatePayloads)
  \/ Delete
  \/ ListBy(DateQueries)

SpecDates == InitServing /\ [][NextDates]_vars

(* ------------------- list interleaved with writes ---------------------- *)

\* router.get("/") up to its first await: the handler builds the filter, calls
\* find and suspends
ListBegin(h, queries) ==
  /\ listening
  /\ tasks[h].pc \in {"idle", "done"}
  /\ \E q \in queries :
       tasks' = [tasks EXCEPT ![h] =
                   Task("find", [Request("LIST", NoId, NoBody) EXCEPT !.query = q],
                        0, <<>>, {}, NoResponse)]
  /\ UNCHANGED <<store, written, nextId, clock, req, resp>>
  /\ unchangedServer

\* the find of a suspended handler runs on the store; the handler then calls
\* countDocuments and suspends again, or answers 500 when the filter is refused
ListFind(h) ==
  /\ tasks[h].pc = "find"
  /\ LET q == tasks[h].req.query
     IN IF castErrors(q) # {}
        THEN /\ req' = tasks[h].req
             /\ resp' = Error(500, "SERVER_ERROR")
             /\ tasks' = [tasks EXCEPT ![h] = Done]
        ELSE /\ tasks' = [tasks EXCEPT
                            ![h].pc = "count",
                            ![h].seen = find(store, q),
                            ![h].page = skipLimit(sortByDate(find(store, q)),
                                                  q.limit, q.offset)]
             /\ UNCHANGED <<req, resp>>
  /\ UNCHANGED <<store, written, nextId, clock>>
  /\ unchangedServer

\* the countDocuments of a suspended handler runs on the store; the handler
\* resumes and responds with the page it holds and this count
ListCount(h) ==
  /\ tasks[h].pc = "count"
  /\ LET q == tasks[h].req.query
         totalCount == Cardinality(find(store, q))
         res == [status |-> 200, code |-> "OK", data |-> tasks[h].page,
                 pagination |-> [total |-> totalCount, limit |-> q.limit,
                                 offset |-> q.offset,
                                 hasMore |-> q.offset + q.limit < totalCount]]
     IN /\ req' = tasks[h].req
        /\ resp' = res
        /\ tasks' = [tasks EXCEPT ![h] = Done]
  /\ UNCHANGED <<store, written, nextId, clock>>
  /\ unchangedServer

\* list requests for the first and the second page, with and without a filter
RaceQueries ==
  { Query(t, <<>>, NoDate, NoDate, l, o) :
      t \in {"", "income"}, l \in {1, DefaultLimit}, o \in {0, 1} }

RacePayloads == { BasePayload } \cup { [BasePayload EXCEPT !.type = "income"] }

\* list handlers write nothing, so one of them, interleaved with the creates
\* and deletes, reads every page and total a list handler can read
ListHandler == CHOOSE h \in Handlers : TRUE

NextRace ==
  \/ Create(RacePayloads)
  \/ Delete
  \/ ListBegin(ListHandler, RaceQueries)
  \/ ListFind(ListHandler)
  \/ ListCount(ListHandler)

SpecRace == InitServing /\ [][NextRace]_vars


(* ------------------------------ analytics ------------------------------ *)

RECURSIVE SumCount(_)
SumCount(G) ==
  IF G = {} THEN 0
  ELSE LET g == CHOOSE x \in G : TRUE IN g.count + SumCount(G \ {g})

\* the $group stage: one item per value of the key, with $sum of amount and of 1
group(recs, key) ==
  { [_id |-> k,
     total |-> SumAmount({ r \in recs : r[key] = k }),
     count |-> Cardinality({ r \in recs : r[key] = k })] :
      k \in { r[key] : r \in recs } }

\* a summary that counts the income group only
getSummary_lastCount(recs) ==
  LET income == { r \in recs : r.type = "income" }
  IN [totalIncome |-> SumAmount(income),
      totalExpenses |-> SumAmount(recs \ income),
      balance |-> SumAmount(income) - SumAmount(recs \ income),
      transactionCount |-> Cardinality(income)]

\* transactionSchema.statics.getSummary
getSummary(recs) ==
  LET summary == group(recs, "type")
      income == { item \in summary : item._id = "income" }
      expense == { item \in summary : item._id = "expense" }
      totalIncome == IF income = {} THEN 0 ELSE (CHOOSE item \in income : TRUE).total
      totalExpenses == IF expense = {} THEN 0 ELSE (CHOOSE item \in expense : TRUE).total
  IN [totalIncome |-> totalIncome,
      totalExpenses |-> totalExpenses,
      balance |-> totalIncome - totalExpenses,
      transactionCount |-> SumCount(summary)]

\* parseFloat(x.toFixed(2)) on thousandths
toFixed2(x) == IF x >= 0 THEN Round2(x) ELSE 0 - Round2(0 - x)

\* router.get("/summary")
Summary ==
  /\ listening
  /\ LET summary == getSummary(store)
     IN /\ req' = Request("SUMMARY", NoId, NoBody)
        /\ resp' = [status |-> 200, code |-> "OK",
                    data |-> [totalIncome |-> toFixed2(summary.totalIncome),
                              totalExpenses |-> toFixed2(summary.totalExpenses),
                              balance |-> toFixed2(summary.balance),
                              transactionCount |-> summary.transactionCount]]
  /\ UNCHANGED <<store, written, nextId, clock>>
  /\ unchangedProcess

NoType == ""

\* { $sort: { total: 1 } }
sortByTotal_asc(G) ==
  { s \in [1..Cardinality(G) -> G] :
      /\ \A i, j \in 1..Cardinality(G) : i # j => s[i] # s[j]
      /\ \A i, j \in 1..Cardinality(G) : i < j => s[i].total <= s[j].total }

\* { $sort: { total: -1 } }: the orders the server may return, ties in any order
sortByTotal(G) ==
  { s \in [1..Cardinality(G) -> G] :
      /\ \A i, j \in 1..Cardinality(G) : i # j => s[i] # s[j]
      /\ \A i, j \in 1..Cardinality(G) : i < j => s[i].total >= s[j].total }

\* transactionSchema.statics.getCategoryBreakdown: the results it may return
getCategoryBreakdown(recs, type) ==
  LET matched == IF type # NoType THEN { r \in recs : r.type = type } ELSE recs
  IN sortByTotal(group(matched, "category"))

\* the breakdown items as the analytics response shapes them
breakdownItems(items) ==
  [i \in 1..Len(items) |->
     [category |-> items[i]._id, amount |-> toFixed2(items[i].total),
      count |-> items[i].count]]

RECURSIVE sortByCreatedAt(_)
sortByCreatedAt(S) ==
  IF S = {} THEN <<>>
  ELSE LET first == CHOOSE r \in S : \A s \in S \ {r} : r.createdAt > s.createdAt
       IN <<first>> \o sortByCreatedAt(S \ {first})

(* --------------------------- monthly trends ---------------------------- *)

\* instants per calendar month, and the calendar year instant 0 falls in
TicksPerMonth == 2
MonthsPerYear == 12
EpochYear == 2025

\* the window of the trends, in months
TrendMonths == 12

\* new Date(new Date().setMonth(new Date().getMonth() - 12))
setMonthBack(now) == now - TrendMonths * TicksPerMonth

\* $year and $month of a date
year(d) == EpochYear + (d \div (MonthsPerYear * TicksPerMonth))
month(d) == ((d \div TicksPerMonth) % MonthsPerYear) + 1

Digits == <<"0", "1", "2", "3", "4", "5", "6", "7", "8", "9">>

\* String(n) of a natural number
RECURSIVE String(_)
String(n) ==
  IF n < 10 THEN <<Digits[n + 1]>>
  ELSE String(n \div 10) \o <<Digits[(n % 10) + 1]>>

RECURSIVE padStart(_, _, _)
padStart(s, len, c) == IF Len(s) >= len THEN s ELSE padStart(<<c>> \o s, len, c)

\* `${item._id.year}-${String(item._id.month).padStart(2, "0")}`
monthKey(item) ==
  String(item._id.year) \o <<"-">> \o padStart(String(item._id.month), 2, "0")

\* the aggregate: $match on the window, $group by year, month and type
monthlyTrends(recs, now) ==
  LET matched == { r \in recs : r.date >= setMonthBack(now) }
      idOf(r) == [year |-> year(r.date), month |-> month(r.date), type |-> r.type]
  IN { [_id |-> i,
        total |-> SumAmount({ r \in matched : idOf(r) = i }),
        count |-> Cardinality({ r \in matched : idOf(r) = i })] :
         i \in { idOf(r) : r \in matched } }

\* the forEach that builds formattedMonthlyTrends
formattedMonthlyTrends(items) ==
  LET totalOf(k, t) ==
        LET g == { i \in items : monthKey(i) = k /\ i._id.type = t }
        IN IF g = {} THEN 0 ELSE toFixed2((CHOOSE i \in g : TRUE).total)
  IN [k \in { monthKey(i) : i \in items } |->
        [income |-> totalOf(k, "income"), expense |-> totalOf(k, "expense")]]


\* router.get("/analytics")
Analytics ==
  /\ listening
  /\ \E expenseBreakdown \in getCategoryBreakdown(store, "expense"),
        incomeBreakdown \in getCategoryBreakdown(store, "income") :
       /\ req' = Request("ANALYTICS", NoId, NoBody)
       /\ resp' = [status |-> 200, code |-> "OK",
                   data |-> [expenseBreakdown |-> breakdownItems(expenseBreakdown),
                             incomeBreakdown |-> breakdownItems(incomeBreakdown),
                             monthlyTrends |->
                               formattedMonthlyTrends(monthlyTrends(store, clock)),
                             recentTransactions |->
                               skipLimit(sortByCreatedAt(store), RecentLimit, 0)]]
  /\ UNCHANGED <<store, written, nextId, clock>>
  /\ unchangedProcess

\* payloads that differ in the fields the aggregations group and sum on
ReportPayloads ==
  { [BasePayload EXCEPT !.type = t, !.amount = Num(a), !.category = c] :
      t \in {"income", "expense"}, a \in {1004, 1005},
      c \in {<<"f", "O">>, <<" ", "t", " ">>} }

NextAnalytics ==
  \/ ConnectOk
  \/ ConnectFail
  \/ Listen
  \/ Create(ReportPayloads)
  \/ Update(ReportPayloads)
  \/ Delete
  \/ Summary
  \/ Analytics

SpecAnalytics == Init /\ [][NextAnalytics]_vars

\* payloads dated around the start of the trends window
TrendPayloads ==
  { [BasePayload EXCEPT !.type = t, !.date = d] :
      t \in {"income", "expense"},
      d \in {At(0 - 23), At(0 - 22), At(0 - 21), NoDate} }

NextTrends ==
  \/ Create(TrendPayloads)
  \/ Update(TrendPayloads)
  \/ Delete
  \/ Analytics

SpecTrends == InitServing /\ [][NextTrends]_vars


(* ------------------------------- claims -------------------------------- *)

EnumTypes == {"income", "expense"}

Incomes == { r \in store : r.type = "income" }
Expenses == { r \in store : r.type = "expense" }

\* C1: a create or update whose payload has no type, or a type outside
\* {income, expense}, is answered 400 VALIDATION_ERROR and leaves the stored
\* records as they were.
C1_InvalidTypeRejected ==
  [][ (req'.op \in {"POST", "PUT"} /\ req'.body.type \notin EnumTypes)
        => (/\ resp'.status = 400
            /\ resp'.code = "VALIDATION_ERROR"
            /\ store' = store) ]_vars

C1_Witness ==
  /\ req.op = "PUT"
  /\ req.body.type = ""
  /\ findById(store, req.id) # {}
  /\ resp.code = "VALIDATION_ERROR"

\* C2: the amount stored in every record is the amount of the payload last
\* written to it, rounded to 2 decimals, whether create or update wrote it.
C2_AmountRounded ==
  \A r \in store :
    r.amount = ((written[r._id].body.amount.v + 5) \div 10) * 10

AcceptedBody(body) ==
  /\ validationErrors(body) = {}
  /\ schemaErrors(castDoc(sanitized(body), clock)) = {}

C4_Summary ==
  LET s == getSummary(store)
  IN /\ s.totalIncome = SumAmount(Incomes)
     /\ s.totalExpenses = SumAmount(Expenses)
     /\ s.balance = SumAmount(Incomes) - SumAmount(Expenses)
     /\ s.transactionCount = Cardinality(store)
     /\ store = {} => s = [totalIncome |-> 0, totalExpenses |-> 0,
                           balance |-> 0, transactionCount |-> 0]
     /\ req.op = "SUMMARY" => resp.data.transactionCount = Cardinality(store)

C4_Witness ==
  /\ req.op = "SUMMARY"
  /\ Incomes # {}
  /\ Expenses # {}
  /\ resp.data.transactionCount = 2

\* C5: categoryBreakdown(type) has exactly one entry per distinct category of
\* the records of that type (of all records without a type), each with the sum
\* and the count of that category's records, ordered by total descending.
C5_Breakdown ==
  \A t \in {NoType, "income", "expense"} :
    LET matched == { r \in store : t = NoType \/ r.type = t }
        cats == { r.category : r \in matched }
    IN /\ getCategoryBreakdown(store, t) # {}
       /\ \A res \in getCategoryBreakdown(store, t) :
            /\ Len(res) = Cardinality(cats)
            /\ { res[i]._id : i \in 1..Len(res) } = cats
            /\ \A i \in 1..Len(res) :
                 /\ res[i].total = SumAmount({ r \in matched : r.category = res[i]._id })
                 /\ res[i].count = Cardinality({ r \in matched : r.category = res[i]._id })
            /\ \A i \in 1..(Len(res) - 1) : res[i].total >= res[i + 1].total

C5_Witness ==
  /\ req.op = "ANALYTICS"
  /\ Len(resp.data.expenseBreakdown) = 2
  /\ resp.data.expenseBreakdown[1].amount > resp.data.expenseBreakdown[2].amount

\* C6: a list response carries the records at positions offset .. offset+limit-1
\* of the matching records ordered by date, then createdAt, descending; total is
\* the number of matching records and hasMore is offset + limit < total.
C6_ListPage ==
  req.op = "LIST" =>
    LET q == req.query
        sorted == sortByDate(find(store, q))
        total == Cardinality(find(store, q))
        n == Min(q.limit, Max(0, total - q.offset))
    IN /\ resp.data = [i \in 1..n |-> sorted[q.offset + i]]
       /\ resp.pagination.total = total
       /\ resp.pagination.hasMore = (q.offset + q.limit < total)

\* C7 as claimed: a record fetched by the id its create returned, not updated
\* since, has the payload's type, description and date, the payload's amount
\* rounded to 2 decimals and the payload's category capitalized.
C7_Original ==
  (req.op = "GET" /\ resp.status = 200 /\ written[req.id].op = "POST") =>
    LET r == resp.data[1]
        p == written[req.id].body
    IN /\ r.type = p.type
       /\ r.description = p.description
       /\ p.date.kind = "date" => r.date = p.date.v
       /\ r.amount = ((p.amount.v + 5) \div 10) * 10
       /\ r.category = capitalize(p.category)

\* C7 amended: the description and the category are the payload's with the
\* surrounding whitespace removed (the category then capitalized), and the date
\* is the payload's date or, when the payload has none, the time of the create.
C7_RoundTrip ==
  (req.op = "GET" /\ resp.status = 200 /\ written[req.id].op = "POST") =>
    LET r == resp.data[1]
        p == written[req.id].body
    IN /\ r._id = req.id
       /\ r.type = p.type
       /\ r.description = trim(p.description)
       /\ r.date = IF p.date.kind = "date" THEN p.date.v ELSE written[req.id].now
       /\ r.amount = ((p.amount.v + 5) \div 10) * 10
       /\ r.category = capitalize(trim(p.category))

C7_Witness ==
  /\ req.op = "GET"
  /\ resp.status = 200
  /\ written[req.id].op = "POST"
  /\ written[req.id].body.category = <<" ", "t", " ">>
  /\ resp.data[1].category = <<"T">>

\* C8: the listener accepts connections only after the storage connection is
\* established; when the connection attempt fails the process has exited and
\* the listener is never started.
C8_StartupOrder ==
  /\ listening => dbConnected
  /\ (pc # "connectDB" /\ ~dbConnected) => (pc = "exited" /\ ~listening)
  /\ req.op # "none" => (listening /\ dbConnected)

C8_Witness ==
  /\ listening
  /\ dbConnected
  /\ resp.status = 201

\* C9: every stored record has an amount of at least 0.01, a type that is income
\* or expense, and a description and a category that are neither empty nor
\* whitespace only, of at most 255 and 50 characters.
C9_RecordInvariant ==
  \A r \in store :
    /\ r.amount >= 10
    /\ r.type \in EnumTypes
    /\ \E i \in 1..Len(r.description) : r.description[i] # " "
    /\ Len(r.description) <= 255
    /\ \E i \in 1..Len(r.category) : r.category[i] # " "
    /\ Len(r.category) <= 50

C9_Witness ==
  /\ req.op = "PUT"
  /\ req.body.description = <<" ">>
  /\ resp.code = "VALIDATION_ERROR"
  /\ \E r \in store : Len(r.description) = 255 /\ Len(r.category) = 50

\* C10: the category stored in every record has its first character in upper
\* case and the others in lower case, whether create or update wrote it.
C10_CategoryNormalized ==
  \A r \in store :
    /\ r.category[1] = toUpperCase(r.category[1])
    /\ \A i \in 2..Len(r.category) : r.category[i] = toLowerCase(r.category[i])


\* C11 as claimed: a successful update replaces type, amount, description,
\* category and date of the record with the payload's values (the date with the
\* current time when the payload has none), keeps its id, leaves every other
\* record as it was and never changes the number of records; an update of an id
\* that no record has creates no record.
C11_Original ==
  [][ req'.op = "PUT" =>
        /\ Cardinality(store') = Cardinality(store)
        /\ IF AcceptedBody(req'.body) /\ (\E r \in store : r._id = req'.id)
           THEN /\ resp'.status = 200
                /\ \E old \in store :
                     /\ old._id = req'.id
                     /\ store' = (store \ {old}) \cup
                          {[old EXCEPT
                              !.type = req'.body.type,
                              !.amount = req'.body.amount.v,
                              !.description = req'.body.description,
                              !.category = req'.body.category,
                              !.date = IF req'.body.date.kind = "date"
                                       THEN req'.body.date.v ELSE clock]}
           ELSE resp'.status # 200 /\ store' = store ]_vars

\* C11 amended: the same, the description and the category being the payload's
\* with the surrounding whitespace removed.
C11_UpdateFrame ==
  [][ req'.op = "PUT" =>
        /\ Cardinality(store') = Cardinality(store)
        /\ IF AcceptedBody(req'.body) /\ (\E r \in store : r._id = req'.id)
           THEN /\ resp'.status = 200
                /\ \E old \in store :
                     /\ old._id = req'.id
                     /\ store' = (store \ {old}) \cup
                          {[old EXCEPT
                              !.type = req'.body.type,
                              !.amount = req'.body.amount.v,
                              !.description = trim(req'.body.description),
                              !.category = trim(req'.body.category),
                              !.date = IF req'.body.date.kind = "date"
                                       THEN req'.body.date.v ELSE clock]}
           ELSE resp'.status # 200 /\ store' = store ]_vars

C11_Witness ==
  /\ req.op = "PUT"
  /\ resp.status = 200
  /\ req.body = LongPayload
  /\ Cardinality(store) = 2
  /\ \E r \in store : r._id = req.id /\ r.date = written[req.id].now /\ r.type = "income"
  /\ \E r \in store : r._id # req.id


\* the record with this id is in no list page, and no summary or breakdown
\* counts it, in the given collection of n records
Gone(recs, id, n) ==
  /\ \A q \in Queries : \A r \in find(recs, q) : r._id # id
  /\ getSummary(recs).transactionCount = n
  /\ \A res \in getCategoryBreakdown(recs, NoType) :
       SumCount({ res[i] : i \in 1..Len(res) }) = n

\* a delete of an existing id answers with that id and removes that one record
DeleteRemoves ==
  (req'.op = "DELETE" /\ (\E r \in store : r._id = req'.id))
    => /\ resp'.status = 200
       /\ resp'.data = <<[id |-> req'.id]>>
       /\ store' = { r \in store : r._id # req'.id }
       /\ Cardinality(store') = Cardinality(store) - 1
       /\ Gone(store', req'.id, Cardinality(store) - 1)

\* a create never hands out an id that was issued before
IdsNotReused ==
  (req'.op = "POST" /\ resp'.status = 201)
    => /\ resp'.data[1]._id \notin 1..(nextId - 1)
       /\ \A r \in store : r \in store'

\* C12 as claimed: a delete of an existing id answers with that id and removes
\* exactly that record; every later get, update or delete of the id answers
\* NOT_FOUND, ids are not reused, the record is in no list, summary or breakdown
\* result, and the other records are as they were.
C12_Original ==
  [][ /\ DeleteRemoves
      /\ IdsNotReused
      /\ (/\ req'.op \in {"GET", "PUT", "DELETE"}
          /\ req'.id \in 1..(nextId - 1)
          /\ ~(\E r \in store : r._id = req'.id))
           => (resp'.status = 404 /\ resp'.code = "NOT_FOUND" /\ store' = store) ]_vars

\* C12 amended: the same, a later update answering NOT_FOUND when its payload
\* is valid (an update with a rejected payload answers VALIDATION_ERROR).
C12_HardDelete ==
  [][ /\ DeleteRemoves
      /\ IdsNotReused
      /\ (/\ \/ req'.op \in {"GET", "DELETE"}
             \/ req'.op = "PUT" /\ AcceptedBody(req'.body)
          /\ req'.id \in 1..(nextId - 1)
          /\ ~(\E r \in store : r._id = req'.id))
           => (resp'.status = 404 /\ resp'.code = "NOT_FOUND" /\ store' = store) ]_vars

C12_Witness ==
  /\ req.op = "GET"
  /\ req.id \in 1..(nextId - 1)
  /\ resp.code = "NOT_FOUND"
  /\ \E r \in store : r._id # req.id


\* the mutable fields of record r are those a request with this payload, read
\* at instant now, writes
WrittenBy(r, body, now) ==
  /\ r.type = body.type
  /\ r.amount = body.amount.v
  /\ r.description = trim(body.description)
  /\ r.category = trim(body.category)
  /\ r.date = IF body.date.kind = "date" THEN body.date.v ELSE now

\* C13: with update requests handled concurrently in any interleaving, the
\* mutable fields of a record all come from the one request the store applied
\* last, never from a mixture, and each request's response shows the record as
\* that request wrote it.
C13_LastWriteWins ==
  /\ \A r \in store :
       written[r._id].op = "PUT"
         => WrittenBy(r, written[r._id].body, written[r._id].now)
  /\ (req.op = "PUT" /\ resp.status = 200)
       => /\ resp.data[1]._id = req.id
          /\ \E now \in 1..clock : WrittenBy(resp.data[1], req.body, now)

C13_Witness ==
  /\ req.op = "PUT"
  /\ resp.status = 200
  /\ req.body = LongPayload
  /\ written[req.id].op = "PUT"
  /\ written[req.id].body = BasePayload
  /\ \E r \in store : r._id = req.id /\ r # resp.data[1] /\ r.type = "expense"

\* "YYYY-MM" of the calendar month a date falls in
YearMonth(d) ==
  LET m == d \div TicksPerMonth
      y == EpochYear + (m \div MonthsPerYear)
      n == (m % MonthsPerYear) + 1
  IN <<Digits[(y \div 1000) + 1], Digits[((y \div 100) % 10) + 1],
       Digits[((y \div 10) % 10) + 1], Digits[(y % 10) + 1], "-",
       Digits[(n \div 10) + 1], Digits[(n % 10) + 1]>>

InWindow == { r \in store : r.date >= clock - TrendMonths * TicksPerMonth }

\* C14: the monthly trends of the analytics response have one key "YYYY-MM" for
\* exactly the months that hold a record dated within the last 12 months; the
\* income and expense values of a key are the sums of the amounts of that
\* month's income and expense records within the window, 0 when there is none.
C14_MonthlyTrends ==
  req.op = "ANALYTICS" =>
    LET trends == resp.data.monthlyTrends
    IN /\ DOMAIN trends = { YearMonth(r.date) : r \in InWindow }
       /\ \A k \in DOMAIN trends :
            /\ trends[k].income =
                 SumAmount({ r \in InWindow : YearMonth(r.date) = k /\ r.type = "income" })
            /\ trends[k].expense =
                 SumAmount({ r \in InWindow : YearMonth(r.date) = k /\ r.type = "expense" })

\* the date of record r lies within the range of the request, ends included
InRange(r) ==
  /\ req.query.startDate.kind = "date" => ~(r.date < req.query.startDate.v)
  /\ req.query.endDate.kind = "date" => ~(r.date > req.query.endDate.v)

\* C15: a list request with a start date, an end date or both matches exactly
\* the stored records dated within the range, the two ends included: only those
\* are returned and pagination.total counts them all.
C15_DateRange ==
  (/\ req.op = "LIST"
   /\ resp.status = 200
   /\ "date" \in {req.query.startDate.kind, req.query.endDate.kind})
    => /\ { resp.data[i] : i \in 1..Len(resp.data) } \subseteq { r \in store : InRange(r) }
       /\ resp.pagination.total = Cardinality({ r \in store : InRange(r) })
       /\ Len(resp.data) = Min(req.query.limit, resp.pagination.total)

C15_Witness ==
  /\ req.op = "LIST"
  /\ req.query.startDate = At(1)
  /\ req.query.endDate = At(2)
  /\ req.query.limit = DefaultLimit
  /\ { r.date : r \in store } = {0, 1, 2}
  /\ { resp.data[i].date : i \in 1..Len(resp.data) } = {1, 2}
  /\ resp.pagination.total = 2

\* C16 as claimed: with creates and deletes interleaved with the list handler,
\* the data of every list response holds at most max(0, total - offset) records.
C16_Original ==
  (req.op = "LIST" /\ resp.status = 200)
    => Len(resp.data) <= Max(0, resp.pagination.total - req.query.offset)

\* C16 amended: the data of a list response is drawn from the records that
\* matched when find ran and the total is the number that match when
\* countDocuments runs; the data holds at most max(0, total - offset) records
\* when the matching records are the same at both reads.
C16_PageAndTotal ==
  [][ \A h \in Handlers :
        (tasks[h].pc = "count" /\ tasks'[h].pc = "done")
          => LET q == tasks[h].req.query
                 data == { resp'.data[i] : i \in 1..Len(resp'.data) }
             IN /\ req' = tasks[h].req
                /\ data \subseteq tasks[h].seen
                /\ resp'.pagination.total = Cardinality(find(store, q))
                /\ tasks[h].seen = find(store, q)
                     => Len(resp'.data) <= Max(0, resp'.pagination.total - q.offset) ]_vars

C16_Witness ==
  /\ req.op = "LIST"
  /\ req.query.offset = 1
  /\ resp.pagination.total = 2
  /\ Len(resp.data) = 1
  /\ Cardinality(find(store, req.query)) = 2
  /\ nextId > 2

====
